---- MODULE Spec2Model ----
(***************************************************************************)
(* The analyzer rule pipeline of gitbase (package analyzer, DefaultRules): *)
(* resolve_subqueries, resolve_tables, qualify_columns, resolve_columns,   *)
(* resolve_database, resolve_star, resolve_functions, pushdown and         *)
(* optimize_distinct, run in that order over a logical plan.               *)
(*                                                                         *)
(* A plan is a tree of node records, an expression a tree of expression    *)
(* records.  Every TransformUp traversal is run one callback at a time:    *)
(* todo holds the paths still to visit (post-order), and each step         *)
(* replaces the subtree at the head of todo by what the rule's callback    *)
(* returns for it.  The maps a rule keeps across callbacks (tables,        *)
(* tableAliases, colIndex, filters, handledFilters, ...) are variables.    *)
(***************************************************************************)
EXTENDS Naturals, Sequences, FiniteSets

VARIABLES
    input,          \* the plan handed to the first Analyze call
    plan,           \* the plan being rewritten
    pc,             \* the rule that runs next ("done", "failed" at the end)
    todo,           \* paths the running TransformUp has still to visit
    err,            \* the error that aborted the pipeline, NoError otherwise
    round,          \* 1: first Analyze call, 2: Analyze called on its result
    first,          \* what the first Analyze call returned
    ruleIn,         \* the plan the rule of the last step started from
    last,           \* rule, path and argument of the last callback
    tables,         \* qualifyColumns: names registered in tables
    tableAliases,   \* qualifyColumns: alias -> real table name
    colIndex,       \* qualifyColumns: column name -> table names
    fieldsByTable,  \* pushdown: table -> column names used
    exprsByTable,   \* pushdown: table -> GetField expressions used
    filters,        \* pushdown: table -> filter conjuncts on that table
    handledFilters  \* pushdown: conjuncts the scans said they handle

vars == <<input, plan, pc, todo, err, round, first, ruleIn, last, tables,
          tableAliases, colIndex, fieldsByTable, exprsByTable, filters,
          handledFilters>>

(***************************************************************************)
(* Bounds of the model.                                                    *)
(***************************************************************************)
\* literals that occur in predicates are 1..MaxLit
MaxLit == 2
\* a Filter predicate of the resolved input plans has at most MaxConj conjuncts
MaxConj == 2

(***************************************************************************)
(* Expressions.                                                            *)
(***************************************************************************)
UnresolvedColumn(t, n) ==
    [kind |-> "UnresolvedColumn", index |-> 0, typ |-> "", table |-> t,
     name |-> n, nullable |-> FALSE, val |-> 0, args |-> <<>>]

\* expression.NewGetFieldWithTable(index, type, table, name, nullable)
GetFieldWithTable(i, ty, t, n, nul) ==
    [kind |-> "GetField", index |-> i, typ |-> ty, table |-> t,
     name |-> n, nullable |-> nul, val |-> 0, args |-> <<>>]

\* expression.NewGetField(index, type, name, nullable): no table
GetField(i, ty, n, nul) == GetFieldWithTable(i, ty, "", n, nul)

Star ==
    [kind |-> "Star", index |-> 0, typ |-> "", table |-> "",
     name |-> "*", nullable |-> FALSE, val |-> 0, args |-> <<>>]

Literal(v) ==
    [kind |-> "Literal", index |-> 0, typ |-> "", table |-> "",
     name |-> "", nullable |-> FALSE, val |-> v, args |-> <<>>]

Equals(l, r) ==
    [kind |-> "Equals", index |-> 0, typ |-> "", table |-> "",
     name |-> "", nullable |-> FALSE, val |-> 0, args |-> <<l, r>>]

And(l, r) ==
    [kind |-> "And", index |-> 0, typ |-> "", table |-> "",
     name |-> "", nullable |-> FALSE, val |-> 0, args |-> <<l, r>>]

RECURSIVE ExprResolved(_)
ExprResolved(e) ==
    CASE e.kind = "UnresolvedColumn" -> FALSE
      [] e.kind = "Star" -> FALSE
      [] e.kind \in {"Equals", "And"} ->
            ExprResolved(e.args[1]) /\ ExprResolved(e.args[2])
      [] OTHER -> TRUE

\* the leaves of an expression in the order Expression.TransformUp reaches them
RECURSIVE Leaves(_)
Leaves(e) ==
    IF e.kind \in {"Equals", "And"}
    THEN Leaves(e.args[1]) \o Leaves(e.args[2])
    ELSE <<e>>

RECURSIVE LeavesOfAll(_)
LeavesOfAll(es) ==
    IF es = <<>> THEN <<>> ELSE Leaves(Head(es)) \o LeavesOfAll(Tail(es))

Range(s) == {s[i] : i \in DOMAIN s}

RECURSIVE Flatten(_)
Flatten(ss) == IF ss = <<>> THEN <<>> ELSE Head(ss) \o Flatten(Tail(ss))

\* a map (a function on a finite set of keys): lookup with default, update
Get(m, k, d) == IF k \in DOMAIN m THEN m[k] ELSE d
Put(m, k, v) == [x \in DOMAIN m \cup {k} |-> IF x = k THEN v ELSE m[x]]
EmptyMap == [x \in {} |-> <<>>]

(***************************************************************************)
(* Errors.                                                                 *)
(***************************************************************************)
NoError == [kind |-> "none", table |-> "", name |-> "", tables |-> <<>>]
ErrTableNotFound(t) ==
    [kind |-> "TableNotFound", table |-> t, name |-> "", tables |-> <<>>]
ErrColumnTableNotFound(t, c) ==
    [kind |-> "ColumnTableNotFound", table |-> t, name |-> c, tables |-> <<>>]
ErrAmbiguousColumnName(c, ts) ==
    [kind |-> "AmbiguousColumnName", table |-> "", name |-> c, tables |-> ts]
ErrFieldMissing(c) ==
    [kind |-> "FieldMissing", table |-> "", name |-> c, tables |-> <<>>]

\* the first error of a sequence of errors, NoError when there is none
RECURSIVE FirstError(_)
FirstError(es) ==
    IF es = <<>> THEN NoError
    ELSE IF Head(es).kind # "none" THEN Head(es) ELSE FirstError(Tail(es))

(***************************************************************************)
(* Plan nodes.                                                             *)
(***************************************************************************)
Node(k, nm, es, kids) ==
    [kind |-> k, name |-> nm, exprs |-> es, children |-> kids,
     cap |-> "", handles |-> {}, columns |-> <<>>, filters |-> <<>>,
     inner |-> <<>>]

UnresolvedTable(nm) == Node("UnresolvedTable", nm, <<>>, <<>>)
Project(es, child) == Node("Project", "", es, <<child>>)
Filter(e, child) == Node("Filter", "", <<e>>, <<child>>)
Sort(es, child) == Node("Sort", "", es, <<child>>)
Distinct(child) == Node("Distinct", "", <<>>, <<child>>)
OrderedDistinct(child) == Node("OrderedDistinct", "", <<>>, <<child>>)
CrossJoin(l, r) == Node("CrossJoin", "", <<>>, <<l, r>>)
TableAlias(nm, child) == Node("TableAlias", nm, <<>>, <<child>>)

\* a table of the catalog: cap is the pushdown interface it implements
\* ("" none, "projection", "projection+filters"); handles says which
\* predicates its HandledFilters keeps
Table(nm, c, h) ==
    [Node("Table", nm, <<>>, <<>>) EXCEPT !.cap = c, !.handles = h]

\* plan.NewPushdownProjectionTable(cols, table)
PushdownProjectionTable(cols, t) ==
    [Node("PushdownProjectionTable", t.name, <<>>, <<>>)
        EXCEPT !.columns = cols, !.inner = <<t>>]

\* plan.NewPushdownProjectionAndFiltersTable(cols, filters, table)
PushdownProjectionAndFiltersTable(cols, fs, t) ==
    [Node("PushdownProjectionAndFiltersTable", t.name, <<>>, <<>>)
        EXCEPT !.columns = cols, !.filters = fs, !.inner = <<t>>]

Wrappers == {"PushdownProjectionTable", "PushdownProjectionAndFiltersTable"}

\* the nodes that implement sql.Table
IsTable(n) == n.kind \in {"Table"} \cup Wrappers

Column(nm, ty, src, nul) ==
    [name |-> nm, typ |-> ty, source |-> src, nullable |-> nul]

\* the tables of the catalog (names: ReferencesTableName, CommitsTableName)
CatalogSchema(nm) ==
    CASE nm = "refs" ->
            <<Column("name", "text", "refs", FALSE),
              Column("hash", "text", "refs", FALSE)>>
      [] nm = "commits" ->
            <<Column("hash", "text", "commits", FALSE),
              Column("author_when", "timestamp", "commits", TRUE)>>
      [] OTHER -> <<>>

CatalogTable(nm) ==
    CASE nm = "refs" -> Table("refs", "projection+filters", 1..1)
      [] nm = "commits" -> Table("commits", "projection", {})

CatalogNames == {"refs", "commits"}

ProjectColumn(e) == Column(e.name, e.typ, e.table, e.nullable)

RECURSIVE Schema(_)
Schema(n) ==
    CASE n.kind = "Table" -> CatalogSchema(n.name)
      [] n.kind \in Wrappers -> CatalogSchema(n.name)
      [] n.kind = "UnresolvedTable" -> <<>>
      [] n.kind = "Project" ->
            [i \in 1..Len(n.exprs) |-> ProjectColumn(n.exprs[i])]
      [] n.kind = "CrossJoin" ->
            Schema(n.children[1]) \o Schema(n.children[2])
      [] OTHER -> Schema(n.children[1])

RECURSIVE Resolved(_)
Resolved(n) ==
    /\ n.kind # "UnresolvedTable"
    /\ \A i \in DOMAIN n.exprs : ExprResolved(n.exprs[i])
    /\ \A i \in DOMAIN n.children : Resolved(n.children[i])

(***************************************************************************)
(* Paths and the order of Node.TransformUp: children first, left to right, *)
(* then the node.  The pushdown wrappers and the tables are leaves.        *)
(***************************************************************************)
RECURSIVE PostOrder(_, _)
PostOrder(n, p) ==
    Flatten([i \in 1..Len(n.children) |->
                PostOrder(n.children[i], Append(p, i))]) \o <<p>>

RECURSIVE SubAt(_, _)
SubAt(n, p) ==
    IF p = <<>> THEN n ELSE SubAt(n.children[Head(p)], Tail(p))

RECURSIVE ReplaceAt(_, _, _)
ReplaceAt(n, p, m) ==
    IF p = <<>> THEN m
    ELSE [n EXCEPT !.children[Head(p)] = ReplaceAt(@, Tail(p), m)]

\* every node of a plan
Subtrees(n) == {SubAt(n, p) : p \in Range(PostOrder(n, <<>>))}

\* what a TransformUp callback returns: a node, or an error
Ok(n) == [node |-> n, err |-> NoError]
Fail(n, e) == [node |-> n, err |-> e]

\* the leaves of the expressions of a subtree, in the order
\* Node.TransformExpressionsUp reaches them: the node's own expressions,
\* then those of its children
RECURSIVE TreeLeaves(_)
TreeLeaves(n) ==
    LeavesOfAll(n.exprs)
        \o Flatten([i \in 1..Len(n.children) |-> TreeLeaves(n.children[i])])

(***************************************************************************)
(* resolve_tables                                                          *)
(***************************************************************************)
\* resolveTables, were it to look up every table by its name, resolved or not
resolveTablesByName(n) ==
    IF n.kind \notin {"UnresolvedTable", "Table"} THEN Ok(n)
    ELSE IF n.name \in CatalogNames THEN Ok(CatalogTable(n.name))
    ELSE Fail(n, ErrTableNotFound(n.name))

resolveTables(n) ==
    IF Resolved(n) THEN Ok(n)
    ELSE IF n.kind # "UnresolvedTable" THEN Ok(n)
    ELSE IF n.name \in CatalogNames THEN Ok(CatalogTable(n.name))
    ELSE Fail(n, ErrTableNotFound(n.name))

(***************************************************************************)
(* qualify_columns                                                         *)
(***************************************************************************)
RECURSIVE DedupFrom(_, _)
DedupFrom(in, seen) ==
    IF in = <<>> THEN <<>>
    ELSE IF Head(in) \in seen THEN DedupFrom(Tail(in), seen)
    ELSE <<Head(in)>> \o DedupFrom(Tail(in), seen \cup {Head(in)})

\* dedupStrings, were it to keep the duplicates
dedupStringsKeep(in) == in

dedupStrings(in) == DedupFrom(in, {})

\* indexCols: colIndex[col.Name] = append(colIndex[col.Name], table)
RECURSIVE indexCols(_, _, _)
indexCols(ci, table, schema) ==
    IF schema = <<>> THEN ci
    ELSE indexCols(
            Put(ci, Head(schema).name,
                Append(Get(ci, Head(schema).name, <<>>), table)),
            table, Tail(schema))

\* the type switch that opens the callback: what node n adds to the maps
QualifyRegister(n, st) ==
    IF n.kind = "TableAlias"
    THEN IF IsTable(n.children[1])
         THEN [st EXCEPT !.tableAliases =
                            Put(@, n.name, n.children[1].name)]
         ELSE [st EXCEPT !.tables = @ \cup {n.name},
                         !.colIndex = indexCols(@, n.name, Schema(n))]
    ELSE IF IsTable(n)
    THEN [st EXCEPT !.tables = @ \cup {n.name},
                    !.colIndex = indexCols(@, n.name, Schema(n))]
    ELSE st

\* the expression callback, were it to leave out the lookup in tables
QualifyColumnNoCheck(col, st) ==
    IF col.table = ""
    THEN LET ts == dedupStrings(Get(st.colIndex, col.name, <<>>)) IN
         CASE Len(ts) = 0 ->
                [expr |-> col, err |-> ErrColumnTableNotFound(col.table, col.name)]
           [] Len(ts) = 1 ->
                [expr |-> UnresolvedColumn(ts[1], col.name), err |-> NoError]
           [] OTHER ->
                [expr |-> col, err |-> ErrAmbiguousColumnName(col.name, ts)]
    ELSE IF col.table \in DOMAIN st.tableAliases
         THEN [expr |-> UnresolvedColumn(st.tableAliases[col.table], col.name),
               err |-> NoError]
         ELSE [expr |-> col, err |-> NoError]

\* the expression callback on one UnresolvedColumn
QualifyColumn(col, st) ==
    IF col.table = ""
    THEN LET ts == dedupStrings(Get(st.colIndex, col.name, <<>>)) IN
         CASE Len(ts) = 0 ->
                [expr |-> col, err |-> ErrColumnTableNotFound(col.table, col.name)]
           [] Len(ts) = 1 ->
                [expr |-> UnresolvedColumn(ts[1], col.name), err |-> NoError]
           [] OTHER ->
                [expr |-> col, err |-> ErrAmbiguousColumnName(col.name, ts)]
    ELSE LET c2 == IF col.table \in DOMAIN st.tableAliases
                   THEN UnresolvedColumn(st.tableAliases[col.table], col.name)
                   ELSE col
         IN IF c2.table \notin st.tables
            THEN [expr |-> col, err |-> ErrTableNotFound(c2.table)]
            ELSE [expr |-> c2, err |-> NoError]

RECURSIVE QualifyExpr(_, _)
QualifyExpr(e, st) ==
    CASE e.kind = "UnresolvedColumn" -> QualifyColumn(e, st).expr
      [] e.kind \in {"Equals", "And"} ->
            [e EXCEPT !.args = <<QualifyExpr(e.args[1], st),
                                 QualifyExpr(e.args[2], st)>>]
      [] OTHER -> e

QualifyLeafError(e, st) ==
    IF e.kind = "UnresolvedColumn" THEN QualifyColumn(e, st).err ELSE NoError

RECURSIVE QualifyTree(_, _)
QualifyTree(n, st) ==
    [n EXCEPT !.exprs = [i \in 1..Len(n.exprs) |-> QualifyExpr(n.exprs[i], st)],
              !.children = [i \in 1..Len(n.children) |->
                                QualifyTree(n.children[i], st)]]

\* the callback of qualifyColumns: registers the node, then transforms
\* the expressions
qualifyColumns(n, st) ==
    LET st2 == QualifyRegister(n, st)
        ls == TreeLeaves(n)
        e == FirstError([i \in 1..Len(ls) |-> QualifyLeafError(ls[i], st2)])
    IN [node |-> IF e.kind = "none" THEN QualifyTree(n, st2) ELSE n,
        err |-> e, st |-> st2]

EmptyQualifyState ==
    [tables |-> {}, tableAliases |-> EmptyMap, colIndex |-> EmptyMap]

(***************************************************************************)
(* resolve_columns                                                         *)
(***************************************************************************)
\* colMap[col.Name] = append(colMap[col.Name], columnInfo{idx, col}), idx++
RECURSIVE ColMapFrom(_, _, _)
ColMapFrom(schema, idx, cm) ==
    IF schema = <<>> THEN cm
    ELSE ColMapFrom(
            Tail(schema), idx + 1,
            Put(cm, Head(schema).name,
                Append(Get(cm, Head(schema).name, <<>>),
                       [idx |-> idx, col |-> Head(schema)])))

\* the loop over n.Children(): the children's schemas, one after the other
ChildrenSchema(n) ==
    Flatten([i \in 1..Len(n.children) |-> Schema(n.children[i])])

\* the colMap loop, were idx to start at 1
ColMapFromOne(n) == ColMapFrom(ChildrenSchema(n), 1, EmptyMap)

ColMap(n) == ColMapFrom(ChildrenSchema(n), 0, EmptyMap)

\* the first columnInfo whose column has the given source
RECURSIVE FindSource(_, _)
FindSource(infos, table) ==
    IF infos = <<>> THEN <<>>
    ELSE IF Head(infos).col.source = table THEN <<Head(infos)>>
    ELSE FindSource(Tail(infos), table)

ResolveColumn(uc, cm) ==
    IF uc.name \notin DOMAIN cm
    THEN [expr |-> uc, err |-> ErrColumnTableNotFound(uc.table, uc.name)]
    ELSE LET f == FindSource(cm[uc.name], uc.table) IN
         IF f = <<>>
         THEN [expr |-> uc, err |-> ErrColumnTableNotFound(uc.table, uc.name)]
         ELSE [expr |-> GetFieldWithTable(f[1].idx, f[1].col.typ,
                                          f[1].col.source, f[1].col.name,
                                          f[1].col.nullable),
               err |-> NoError]

RECURSIVE ResolveExpr(_, _)
ResolveExpr(e, cm) ==
    CASE e.kind = "UnresolvedColumn" -> ResolveColumn(e, cm).expr
      [] e.kind \in {"Equals", "And"} ->
            [e EXCEPT !.args = <<ResolveExpr(e.args[1], cm),
                                 ResolveExpr(e.args[2], cm)>>]
      [] OTHER -> e

ResolveLeafError(e, cm) ==
    IF e.kind = "UnresolvedColumn" THEN ResolveColumn(e, cm).err ELSE NoError

RECURSIVE ResolveTree(_, _)
ResolveTree(n, cm) ==
    [n EXCEPT !.exprs = [i \in 1..Len(n.exprs) |-> ResolveExpr(n.exprs[i], cm)],
              !.children = [i \in 1..Len(n.children) |->
                                ResolveTree(n.children[i], cm)]]

resolveColumns(n) ==
    IF Resolved(n) THEN Ok(n)
    ELSE IF \E i \in DOMAIN n.children : ~Resolved(n.children[i]) THEN Ok(n)
    ELSE LET cm == ColMap(n)
             ls == TreeLeaves(n)
             e == FirstError([i \in 1..Len(ls) |-> ResolveLeafError(ls[i], cm)])
         IN IF e.kind = "none" THEN Ok(ResolveTree(n, cm)) ELSE Fail(n, e)

(***************************************************************************)
(* resolve_star                                                            *)
(***************************************************************************)
\* the loop over p.Child.Schema(): one NewGetField per column
StarFields(schema) ==
    [i \in 1..Len(schema) |->
        GetField(i - 1, schema[i].typ, schema[i].name, schema[i].nullable)]

resolveStar(n) ==
    IF Resolved(n) THEN Ok(n)
    ELSE IF n.kind # "Project" THEN Ok(n)
    ELSE IF Len(n.exprs) # 1 THEN Ok(n)
    ELSE IF n.exprs[1].kind # "Star" THEN Ok(n)
    ELSE Ok(Project(StarFields(Schema(n.children[1])), n.children[1]))


(***************************************************************************)
(* pushdown                                                                *)
(***************************************************************************)
\* first pass: the GetFields of the plan by table, each (table, name) once
RECURSIVE UsedColumns(_, _, _)
UsedColumns(ls, seen, acc) ==
    IF ls = <<>> THEN acc
    ELSE LET e == Head(ls) IN
         IF e.kind = "GetField" /\ <<e.table, e.name>> \notin seen
         THEN UsedColumns(
                Tail(ls), seen \cup {<<e.table, e.name>>},
                [fieldsByTable |->
                    Put(acc.fieldsByTable, e.table,
                        Append(Get(acc.fieldsByTable, e.table, <<>>), e.name)),
                 exprsByTable |->
                    Put(acc.exprsByTable, e.table,
                        Append(Get(acc.exprsByTable, e.table, <<>>), e))])
         ELSE UsedColumns(Tail(ls), seen, acc)

RECURSIVE splitExpression(_)
splitExpression(e) ==
    IF e.kind # "And" THEN <<e>>
    ELSE splitExpression(e.args[1]) \o splitExpression(e.args[2])

\* expression.JoinAnd of a non-empty list
RECURSIVE JoinAndFrom(_, _)
JoinAndFrom(acc, es) ==
    IF es = <<>> THEN acc ELSE JoinAndFrom(And(acc, Head(es)), Tail(es))

JoinAnd(es) == JoinAndFrom(Head(es), Tail(es))

\* seenTables and lastTable of one conjunct
RECURSIVE SeenTables(_, _)
SeenTables(ls, acc) ==
    IF ls = <<>> THEN acc
    ELSE LET f == Head(ls) IN
         IF f.kind = "GetField" /\ f.table \notin acc.seen
         THEN SeenTables(Tail(ls),
                         [seen |-> acc.seen \cup {f.table}, lastTable |-> f.table])
         ELSE SeenTables(Tail(ls), acc)

RECURSIVE TableFiltersFrom(_, _)
TableFiltersFrom(conjs, fbt) ==
    IF conjs = <<>> THEN fbt
    ELSE LET st == SeenTables(Leaves(Head(conjs)),
                              [seen |-> {}, lastTable |-> ""])
         IN IF Cardinality(st.seen) = 1
            THEN TableFiltersFrom(
                    Tail(conjs),
                    Put(fbt, st.lastTable,
                        Append(Get(fbt, st.lastTable, <<>>), Head(conjs))))
            ELSE TableFiltersFrom(Tail(conjs), fbt)

exprToTableFilters(e) == TableFiltersFrom(splitExpression(e), EmptyMap)

\* filters.merge: f[k] = append(f[k], exprs...) for every k of f2
MergeFilters(f, f2) ==
    [k \in DOMAIN f \cup DOMAIN f2 |-> Get(f, k, <<>>) \o Get(f2, k, <<>>)]

\* second pass: the filters of every Filter node, in TransformUp order
RECURSIVE CollectFilters(_, _, _)
CollectFilters(n, paths, f) ==
    IF paths = <<>> THEN f
    ELSE LET m == SubAt(n, Head(paths)) IN
         CollectFilters(
            n, Tail(paths),
            IF m.kind = "Filter"
            THEN MergeFilters(f, exprToTableFilters(m.exprs[1]))
            ELSE f)

\* getUnhandledFilters: the filters that are not in handled
getUnhandledFilters(all, handled) ==
    SelectSeq(all, LAMBDA f : f \notin Range(handled))

\* Table.HandledFilters of the table implementations: the filters of the
\* form column = literal whose literal the table handles
HandledFilters(t, fs) ==
    SelectSeq(fs, LAMBDA f : /\ f.kind = "Equals"
                             /\ f.args[1].kind = "GetField"
                             /\ f.args[2].kind = "Literal"
                             /\ f.args[2].val \in t.handles)

\* the index of the first column of the schema with the name, 0 if none
RECURSIVE ColumnIndex(_, _, _)
ColumnIndex(schema, nm, i) ==
    IF i > Len(schema) THEN 0
    ELSE IF schema[i].name = nm THEN i
    ELSE ColumnIndex(schema, nm, i + 1)

RECURSIVE fixFieldIndexes(_, _)
fixFieldIndexes(schema, e) ==
    CASE e.kind = "GetField" ->
            LET i == ColumnIndex(schema, e.name, 1) IN
            IF i = 0 THEN e
            ELSE GetFieldWithTable(i - 1, e.typ, e.table, e.name, e.nullable)
      [] e.kind \in {"Equals", "And"} ->
            [e EXCEPT !.args = <<fixFieldIndexes(schema, e.args[1]),
                                 fixFieldIndexes(schema, e.args[2])>>]
      [] OTHER -> e

FixLeafError(schema, e) ==
    IF e.kind = "GetField" /\ ColumnIndex(schema, e.name, 1) = 0
    THEN ErrFieldMissing(e.name)
    ELSE NoError

fixFieldIndexesOnExpressions(schema, es) ==
    LET ls == LeavesOfAll(es) IN
    [exprs |-> [i \in 1..Len(es) |-> fixFieldIndexes(schema, es[i])],
     err |-> FirstError([i \in 1..Len(ls) |-> FixLeafError(schema, ls[i])])]

\* the lookup of the filters of a scan, were it to fall back on the filters
\* of another table
TableFiltersAny(fbt, n) ==
    IF n.name \in DOMAIN fbt THEN fbt[n.name]
    ELSE IF DOMAIN fbt = {} THEN <<>>
    ELSE fbt[CHOOSE k \in DOMAIN fbt : TRUE]

\* tableFilters := filters[node.Name()]
TableFilters(fbt, n) == Get(fbt, n.name, <<>>)

\* the Filter case, were it to rebuild only a Filter it can drop
PushdownFilterKeep(n, handled) ==
    IF Len(handled) = 0 THEN n
    ELSE LET unhandled == getUnhandledFilters(splitExpression(n.exprs[1]),
                                              handled)
         IN IF Len(unhandled) = 0 THEN n.children[1] ELSE n

\* the Filter case of the third pass
PushdownFilter(n, handled) ==
    IF Len(handled) = 0 THEN n
    ELSE LET unhandled == getUnhandledFilters(splitExpression(n.exprs[1]),
                                              handled)
         IN IF Len(unhandled) = 0 THEN n.children[1]
            ELSE Filter(JoinAnd(unhandled), n.children[1])

\* the callback of the third pass
pushdownNode(n, fbt, ebt, fbyt, handled) ==
    CASE n.kind = "Filter" ->
            [node |-> PushdownFilter(n, handled), err |-> NoError,
             handled |-> handled]
      [] n.kind \in Wrappers ->
            [node |-> n, err |-> NoError, handled |-> handled]
      [] n.kind = "Table" /\ n.cap = "projection+filters" ->
            LET h == HandledFilters(n, TableFilters(fbt, n))
                cols == fixFieldIndexesOnExpressions(
                            Schema(n), Get(ebt, n.name, <<>>))
                hs == fixFieldIndexesOnExpressions(Schema(n), h)
            IN IF cols.err.kind # "none"
               THEN [node |-> n, err |-> cols.err, handled |-> handled \o h]
               ELSE IF hs.err.kind # "none"
               THEN [node |-> n, err |-> hs.err, handled |-> handled \o h]
               ELSE [node |-> PushdownProjectionAndFiltersTable(
                                cols.exprs, hs.exprs, n),
                     err |-> NoError, handled |-> handled \o h]
      [] n.kind = "Table" /\ n.cap = "projection" ->
            [node |-> PushdownProjectionTable(Get(fbyt, n.name, <<>>), n),
             err |-> NoError, handled |-> handled]
      [] OTHER -> [node |-> n, err |-> NoError, handled |-> handled]

(***************************************************************************)
(* optimize_distinct                                                       *)
(***************************************************************************)
optimizeDistinct(n) ==
    IF n.kind = "Distinct" /\ \E m \in Subtrees(n) : m.kind = "Sort"
    THEN OrderedDistinct(n.children[1])
    ELSE n

(***************************************************************************)
(* The pipeline.                                                           *)
(***************************************************************************)
DefaultRules ==
    <<"resolve_subqueries", "resolve_tables", "qualify_columns",
      "resolve_columns", "resolve_database", "resolve_star",
      "resolve_functions", "pushdown", "optimize_distinct">>

\* the rule after rule r, "done" after the last
NextRule(r) ==
    LET i == CHOOSE j \in DOMAIN DefaultRules : DefaultRules[j] = r IN
    IF i = Len(DefaultRules) THEN "done" ELSE DefaultRules[i + 1]

\* the rules that are one TransformUp whose callbacks are run as steps
TraversalRules ==
    {"resolve_tables", "qualify_columns", "resolve_columns", "resolve_star"}

\* todo as rule r starts on plan p
Enter(r, p) == IF r \in TraversalRules THEN PostOrder(p, <<>>) ELSE <<>>

qualifyVars == <<tables, tableAliases, colIndex>>
pushdownVars == <<fieldsByTable, exprsByTable, filters, handledFilters>>

\* the callback of rule r is about to run on the subtree at the head of todo
Visiting(r) == pc = r /\ todo # <<>> /\ err = NoError

\* bookkeeping of every step of rule r: its argument, and the rule's input
Note(r, p) ==
    /\ last' = [rule |-> r, path |-> p, node |-> SubAt(plan, p)]
    /\ ruleIn' = IF last.rule = r THEN ruleIn ELSE plan
    /\ UNCHANGED <<input, round, first>>

\* the callback returned res: the traversal goes on, ends, or fails
Return(r, res) ==
    IF res.err.kind # "none"
    THEN /\ err' = res.err
         /\ pc' = "failed"
         /\ todo' = <<>>
         /\ plan' = plan
    ELSE /\ err' = NoError
         /\ plan' = ReplaceAt(plan, Head(todo), res.node)
         /\ IF Len(todo) = 1
            THEN /\ pc' = NextRule(r)
                 /\ todo' = Enter(NextRule(r), plan')
            ELSE /\ pc' = r
                 /\ todo' = Tail(todo)

\* a rule that is not run in steps returned newPlan
ReturnWhole(r, newPlan) ==
    /\ err' = NoError
    /\ plan' = newPlan
    /\ pc' = NextRule(r)
    /\ todo' = Enter(NextRule(r), newPlan)

\* resolveSubqueries: no node of these plans is a SubqueryAlias, every
\* callback takes the default arm
ResolveSubqueries ==
    /\ pc = "resolve_subqueries" /\ err = NoError
    /\ Note("resolve_subqueries", <<>>)
    /\ ReturnWhole("resolve_subqueries", plan)
    /\ UNCHANGED <<qualifyVars, pushdownVars>>

ResolveTables ==
    /\ Visiting("resolve_tables")
    /\ Note("resolve_tables", Head(todo))
    /\ Return("resolve_tables", resolveTables(SubAt(plan, Head(todo))))
    /\ IF pc' = "qualify_columns"
       THEN /\ tables' = EmptyQualifyState.tables
            /\ tableAliases' = EmptyQualifyState.tableAliases
            /\ colIndex' = EmptyQualifyState.colIndex
       ELSE UNCHANGED qualifyVars
    /\ UNCHANGED pushdownVars

QualifyColumns ==
    /\ Visiting("qualify_columns")
    /\ Note("qualify_columns", Head(todo))
    /\ LET res == qualifyColumns(
                    SubAt(plan, Head(todo)),
                    [tables |-> tables, tableAliases |-> tableAliases,
                     colIndex |-> colIndex])
       IN /\ Return("qualify_columns", res)
          /\ tables' = res.st.tables
          /\ tableAliases' = res.st.tableAliases
          /\ colIndex' = res.st.colIndex
    /\ UNCHANGED pushdownVars

ResolveColumns ==
    /\ Visiting("resolve_columns")
    /\ Note("resolve_columns", Head(todo))
    /\ Return("resolve_columns", resolveColumns(SubAt(plan, Head(todo))))
    /\ UNCHANGED <<qualifyVars, pushdownVars>>

\* resolveDatabase: the root is no ShowTables and no CreateTable
ResolveDatabase ==
    /\ pc = "resolve_database" /\ err = NoError
    /\ Note("resolve_database", <<>>)
    /\ ReturnWhole("resolve_database", plan)
    /\ UNCHANGED <<qualifyVars, pushdownVars>>

ResolveStar ==
    /\ Visiting("resolve_star")
    /\ Note("resolve_star", Head(todo))
    /\ Return("resolve_star", resolveStar(SubAt(plan, Head(todo))))
    /\ UNCHANGED <<qualifyVars, pushdownVars>>

\* resolveFunctions: no expression of these plans is an UnresolvedFunction
ResolveFunctions ==
    /\ pc = "resolve_functions" /\ err = NoError
    /\ Note("resolve_functions", <<>>)
    /\ ReturnWhole("resolve_functions", plan)
    /\ UNCHANGED <<qualifyVars, pushdownVars>>

\* pushdown up to its third pass: the Resolved check and the two collecting
\* passes
PushdownCollect ==
    /\ pc = "pushdown" /\ todo = <<>> /\ err = NoError
    /\ Note("pushdown", <<>>)
    /\ err' = NoError
    /\ plan' = plan
    /\ IF ~Resolved(plan)
       THEN /\ pc' = NextRule("pushdown")
            /\ todo' = Enter(NextRule("pushdown"), plan)
            /\ UNCHANGED pushdownVars
       ELSE LET used == UsedColumns(
                            TreeLeaves(plan), {},
                            [fieldsByTable |-> EmptyMap,
                             exprsByTable |-> EmptyMap])
            IN /\ fieldsByTable' = used.fieldsByTable
               /\ exprsByTable' = used.exprsByTable
               /\ filters' = CollectFilters(plan, PostOrder(plan, <<>>),
                                            EmptyMap)
               /\ handledFilters' = <<>>
               /\ pc' = "pushdown"
               /\ todo' = PostOrder(plan, <<>>)
    /\ UNCHANGED qualifyVars

\* one callback of the third pass of pushdown
PushdownTransform ==
    /\ Visiting("pushdown")
    /\ Note("pushdown", Head(todo))
    /\ LET res == pushdownNode(SubAt(plan, Head(todo)), filters,
                               exprsByTable, fieldsByTable, handledFilters)
       IN /\ Return("pushdown", res)
          /\ handledFilters' = res.handled
    /\ UNCHANGED <<qualifyVars, fieldsByTable, exprsByTable, filters>>

OptimizeDistinct ==
    /\ pc = "optimize_distinct" /\ err = NoError
    /\ Note("optimize_distinct", <<>>)
    /\ ReturnWhole("optimize_distinct", optimizeDistinct(plan))
    /\ UNCHANGED <<qualifyVars, pushdownVars>>

\* the caller hands the plan Analyze returned to Analyze again
AnalyzeAgain ==
    /\ pc = "done" /\ round = 1
    /\ round' = 2
    /\ first' = plan
    /\ last' = [rule |-> "analyze", path |-> <<>>, node |-> plan]
    /\ ruleIn' = plan
    /\ pc' = DefaultRules[1]
    /\ todo' = Enter(DefaultRules[1], plan)
    /\ UNCHANGED <<input, plan, err, qualifyVars, pushdownVars>>

Next ==
    \/ ResolveSubqueries
    \/ ResolveTables
    \/ QualifyColumns
    \/ ResolveColumns
    \/ ResolveDatabase
    \/ ResolveStar
    \/ ResolveFunctions
    \/ PushdownCollect
    \/ PushdownTransform
    \/ OptimizeDistinct
    \/ AnalyzeAgain

InitFrom(p) ==
    /\ input = p
    /\ plan = p
    /\ pc = DefaultRules[1]
    /\ todo = Enter(DefaultRules[1], p)
    /\ err = NoError
    /\ round = 1
    /\ first = p
    /\ ruleIn = p
    /\ last = [rule |-> "none", path |-> <<>>, node |-> p]
    /\ tables = {}
    /\ tableAliases = EmptyMap
    /\ colIndex = EmptyMap
    /\ fieldsByTable = EmptyMap
    /\ exprsByTable = EmptyMap
    /\ filters = EmptyMap
    /\ handledFilters = <<>>

(***************************************************************************)
(* The plans handed to Analyze.                                            *)
(*                                                                         *)
(* ParsedPlans are plans as the parser builds them: unresolved tables,     *)
(* unresolved columns (bare, or qualified with a table or an alias) and    *)
(* Star.  ResolvedPlans are resolved plans, as a caller that runs a rule   *)
(* on its own builds them: tables of every pushdown capability, scans      *)
(* that are already wrapped, and GetFields that index the schema beneath.  *)
(***************************************************************************)
Lits == 1..MaxLit
Quals == {"", "refs", "commits", "r"}
ColNames == {"name", "hash", "author_when"}
UCols == {UnresolvedColumn(q, c) : q \in Quals, c \in ColNames}
BareCols == {UnresolvedColumn("", c) : c \in ColNames}

USources ==
    {UnresolvedTable("refs"), UnresolvedTable("commits"),
     TableAlias("r", UnresolvedTable("refs"))}

UJoins == {CrossJoin(a, b) : a \in USources, b \in USources}

UFroms == USources \cup UJoins \cup {UnresolvedTable("nope")}

UFew ==
    USources \cup {CrossJoin(UnresolvedTable("refs"), UnresolvedTable("commits"))}

\* an alias of something that is not a table
UAliased ==
    TableAlias("f", Filter(Equals(UnresolvedColumn("refs", "name"), Literal(1)),
                           UnresolvedTable("refs")))

ParsedPlans ==
    {Project(<<c>>, f) : c \in UCols, f \in UFroms}
    \cup {CrossJoin(Filter(Equals(c, Literal(v)), a), b) :
            c \in UCols, v \in Lits, a \in USources, b \in USources}
    \cup {CrossJoin(a, Filter(Equals(c, Literal(v)), b)) :
            c \in UCols, v \in Lits, a \in USources, b \in USources}
    \cup {Project(<<UnresolvedColumn(q, c)>>, UAliased) :
            q \in {"", "f", "refs"}, c \in ColNames}
    \cup {Project(<<Star>>, f) : f \in UFew}
    \cup {Project(<<c, Star>>, f) : c \in BareCols, f \in UFew}
    \cup {Project(<<c, d>>, f) : c \in BareCols, d \in BareCols, f \in UFew}
    \cup {Sort(<<c>>, Project(<<Star>>, f)) : c \in BareCols, f \in UFew}
    \cup {Distinct(Project(<<Star>>, f)) : f \in UFew}
    \cup {Distinct(Sort(<<c>>, f)) : c \in BareCols, f \in UFew}
    \cup {Distinct(Sort(<<c>>, Project(<<d>>, f))) :
            c \in BareCols, d \in BareCols, f \in UFew}
    \cup {Project(<<Star>>, Filter(Equals(c, Literal(v)), f)) :
            c \in BareCols, v \in Lits, f \in UFew}
    \cup {Project(<<c>>, Filter(And(Equals(UnresolvedColumn("", "name"),
                                           Literal(v)),
                                    Equals(UnresolvedColumn("refs", "hash"),
                                           Literal(w))), f)) :
            c \in BareCols, v \in Lits, w \in Lits, f \in UFew}

\* the GetField that reads column i (from 1) of a schema
FieldAt(schema, i) ==
    GetFieldWithTable(i - 1, schema[i].typ, schema[i].source,
                      schema[i].name, schema[i].nullable)

\* the conjuncts over a schema: column = literal, column = column, and a
\* constant
Conjuncts(schema) ==
    Flatten([i \in 1..Len(schema) |->
                [v \in 1..MaxLit |-> Equals(FieldAt(schema, i), Literal(v))]])
    \o Flatten([i \in 1..Len(schema) |->
                [k \in 1..(Len(schema) - i) |->
                    Equals(FieldAt(schema, i), FieldAt(schema, i + k))]])
    \o <<Equals(Literal(1), Literal(1))>>

\* the predicates of at most k conjuncts, taken from position i on
RECURSIVE PredicatesFrom(_, _, _)
PredicatesFrom(cs, i, k) ==
    {cs[j] : j \in i..Len(cs)}
    \cup IF k <= 1 THEN {}
         ELSE UNION {{And(cs[j], p) : p \in PredicatesFrom(cs, j, k - 1)} :
                        j \in i..Len(cs)}

Predicates(schema) == PredicatesFrom(Conjuncts(schema), 1, MaxConj)

RefsTable(h) == Table("refs", "projection+filters", h)
CommitsTable == Table("commits", "projection", {})

\* the GetFields of every column of a catalog table, in schema order
AllColumns(nm) ==
    [i \in 1..Len(CatalogSchema(nm)) |-> FieldAt(CatalogSchema(nm), i)]

Scans ==
    {RefsTable({}), RefsTable(1..1), RefsTable(Lits), CommitsTable,
     Table("commits", "projection+filters", Lits),
     Table("commits", "", {}),
     PushdownProjectionTable(<<"hash", "author_when">>, CommitsTable),
     PushdownProjectionAndFiltersTable(AllColumns("refs"), <<>>,
                                       RefsTable(1..1))}

JoinScans ==
    {RefsTable({}), RefsTable(1..1), CommitsTable,
     PushdownProjectionAndFiltersTable(AllColumns("refs"), <<>>,
                                       RefsTable(1..1))}

RefsScans == {s \in JoinScans : s.name = "refs"}

SingleConjuncts(n) == Range(Conjuncts(Schema(n)))

ResolvedPlans ==
    {Filter(p, s) : <<p, s>> \in
        UNION {{<<q, t>> : q \in Predicates(Schema(t))} : t \in Scans}}
    \cup {CrossJoin(Filter(c, a), b) : <<c, a, b>> \in
            UNION {{<<d, x, y>> : d \in SingleConjuncts(x)} :
                        <<x, y>> \in JoinScans \X JoinScans}}
    \cup {CrossJoin(a, Filter(c, b)) : <<c, a, b>> \in
            UNION {{<<d, x, y>> : d \in SingleConjuncts(y)} :
                        <<x, y>> \in JoinScans \X JoinScans}}
    \cup {CrossJoin(Filter(c, a), Filter(c, b)) : <<c, a, b>> \in
            UNION {{<<d, x, y>> : d \in SingleConjuncts(x)} :
                        <<x, y>> \in RefsScans \X RefsScans}}
    \cup {Filter(c, j) : <<c, j>> \in
            UNION {{<<d, CrossJoin(x, y)>> :
                        d \in SingleConjuncts(CrossJoin(x, y))} :
                        <<x, y>> \in JoinScans \X JoinScans}}
    \cup {Project(<<FieldAt(Schema(s), i)>>, Filter(c, s)) : <<i, c, s>> \in
            UNION {{<<k, d, t>> : k \in 1..Len(Schema(t)),
                                  d \in SingleConjuncts(t)} : t \in Scans}}
    \cup {Distinct(Sort(<<FieldAt(Schema(s), 1)>>, s)) : s \in Scans}
    \cup {Distinct(Project(<<FieldAt(Schema(s), 1)>>, s)) : s \in Scans}
    \cup {Project(<<FieldAt(Schema(s), 1)>>,
                  Distinct(Sort(<<FieldAt(Schema(s), 2)>>, s))) : s \in Scans}

Init == \E p \in ParsedPlans \cup ResolvedPlans : InitFrom(p)

Spec == Init /\ [][Next]_vars

(***************************************************************************)
(* Vocabulary of the properties.                                           *)
(***************************************************************************)
Paths(n) == Range(PostOrder(n, <<>>))

\* the top-level And-conjuncts of a predicate
RECURSIVE AndConjuncts(_)
AndConjuncts(e) ==
    IF e.kind = "And"
    THEN AndConjuncts(e.args[1]) \cup AndConjuncts(e.args[2])
    ELSE {e}

\* the tables the GetField leaves of an expression name
ExprTables(e) ==
    {l.table : l \in {x \in Range(Leaves(e)) : x.kind = "GetField"}}

\* the conjuncts of the Filter nodes of a plan
FilterConjuncts(p) ==
    UNION {AndConjuncts(f.exprs[1]) : f \in {m \in Subtrees(p) : m.kind = "Filter"}}

\* the same expression but for the indexes of its GetFields
RECURSIVE SameButIndex(_, _)
SameButIndex(a, b) ==
    /\ a.kind = b.kind
    /\ a.table = b.table /\ a.name = b.name /\ a.typ = b.typ
    /\ a.nullable = b.nullable /\ a.val = b.val
    /\ Len(a.args) = Len(b.args)
    /\ \A i \in DOMAIN a.args : SameButIndex(a.args[i], b.args[i])

\* the paths the running traversal has visited, the last one included
Visited ==
    LET po == PostOrder(ruleIn, <<>>)
        k == CHOOSE i \in DOMAIN po : po[i] = last.path
    IN {po[i] : i \in 1..k}

\* the result of the last callback
Result == SubAt(plan, last.path)

\* the proper ancestors of the node of the last callback
Ancestors ==
    {SubAt(plan, SubSeq(last.path, 1, k)) : k \in 0..(Len(last.path) - 1)}

(***************************************************************************)
(* C1  Pushdown soundness.  While and after the third pass of pushdown     *)
(* runs on a resolved plan: every conjunct in handledFilters is a          *)
(* top-level And-conjunct of a Filter of the plan pushdown was given and   *)
(* its GetFields name exactly one table; every conjunct kept for a table   *)
(* t, the only ones handed to a scan named t, names t alone; and every     *)
(* handled filter listed by a wrapper that pushdown built is such a        *)
(* conjunct, re-indexed, on the wrapper's own table.                       *)
(***************************************************************************)
PushdownSound ==
    (last.rule = "pushdown" /\ Resolved(ruleIn)) =>
        /\ \A c \in Range(handledFilters) :
                /\ c \in FilterConjuncts(ruleIn)
                /\ Cardinality(ExprTables(c)) = 1
        /\ \A t \in DOMAIN filters : \A c \in Range(filters[t]) :
                ExprTables(c) = {t}
        /\ \A w \in {m \in Subtrees(plan) \ Subtrees(ruleIn) :
                        m.kind = "PushdownProjectionAndFiltersTable"} :
                \A h \in Range(w.filters) :
                    /\ ExprTables(h) = {w.name}
                    /\ \E c \in FilterConjuncts(ruleIn) :
                            c \in Range(handledFilters) /\ SameButIndex(c, h)

\* a scan absorbed a conjunct of a Filter that also has a conjunct with
\* no table, which no scan was handed
PushdownSoundWitness ==
    /\ last.rule = "pushdown"
    /\ last.node.kind = "Table"
    /\ Result.kind = "PushdownProjectionAndFiltersTable"
    /\ Result.filters # <<>>
    /\ \E c \in FilterConjuncts(ruleIn) : ExprTables(c) = {}

(***************************************************************************)
(* C2  as claimed: in the plan pushdown returns, no Filter has a           *)
(* top-level conjunct that some scan reported as handled, wherever the     *)
(* Filter is.                                                              *)
(***************************************************************************)
NoHandledConjunctLeft ==
    (last.rule = "pushdown" /\ pc # "pushdown" /\ err = NoError) =>
        \A f \in {m \in Subtrees(plan) : m.kind = "Filter"} :
            AndConjuncts(f.exprs[1]) \cap Range(handledFilters) = {}

(***************************************************************************)
(* C2  as amended: the node the pushdown callback returns for a Filter     *)
(* has no top-level conjunct that a scan visited before the Filter (every  *)
(* scan beneath it is one) reported as handled: the Filter is replaced by  *)
(* its child when all its conjuncts are handled, and otherwise is a        *)
(* Filter over the same child whose conjuncts are the unhandled ones.      *)
(***************************************************************************)
FilterLosesHandledSoFar ==
    (last.rule = "pushdown" /\ last.node.kind = "Filter" /\ err = NoError) =>
        LET unhandled == AndConjuncts(last.node.exprs[1])
                            \ Range(handledFilters)
        IN IF unhandled = {}
           THEN Result = last.node.children[1]
           ELSE /\ Result.kind = "Filter"
                /\ Result.children = last.node.children
                /\ AndConjuncts(Result.exprs[1]) = unhandled

\* a Filter was rebuilt: some of its conjuncts were handled, some not
FilterRebuiltWitness ==
    /\ last.rule = "pushdown"
    /\ last.node.kind = "Filter"
    /\ Result.kind = "Filter"
    /\ Result # last.node
    /\ AndConjuncts(last.node.exprs[1]) \cap Range(handledFilters) # {}

(***************************************************************************)
(* C3  Index validity.  When the resolve_columns callback gets a node N    *)
(* that is not resolved and whose children are: it succeeds iff every      *)
(* UnresolvedColumn(t, c) of N has a column named c with source t in the   *)
(* concatenation of the children's schemas; then each is replaced by a     *)
(* GetField whose index is a position of such a column and whose table,    *)
(* name, type and nullability are that column's, the other expressions     *)
(* unchanged; otherwise it fails with ColumnTableNotFound(t, c) for a      *)
(* column of N that has no match.                                          *)
(***************************************************************************)
RECURSIVE ConcatSchemas(_)
ConcatSchemas(kids) ==
    IF kids = <<>> THEN <<>> ELSE Schema(Head(kids)) \o ConcatSchemas(Tail(kids))

HasColumn(S, t, c) == \E i \in DOMAIN S : S[i].name = c /\ S[i].source = t

IndexValid ==
    (/\ last.rule = "resolve_columns"
     /\ ~Resolved(last.node)
     /\ \A i \in DOMAIN last.node.children : Resolved(last.node.children[i])) =>
        LET S == ConcatSchemas(last.node.children)
            before == LeavesOfAll(last.node.exprs)
            after == LeavesOfAll(Result.exprs)
            cols == {k \in DOMAIN before : before[k].kind = "UnresolvedColumn"}
        IN IF \A k \in cols : HasColumn(S, before[k].table, before[k].name)
           THEN /\ err = NoError
                /\ Len(after) = Len(before)
                /\ Result.children = last.node.children
                /\ \A k \in DOMAIN before :
                    IF k \in cols
                    THEN LET g == after[k] IN
                         /\ g.kind = "GetField"
                         /\ g.index + 1 \in DOMAIN S
                         /\ S[g.index + 1].name = before[k].name
                         /\ S[g.index + 1].source = before[k].table
                         /\ g.name = before[k].name
                         /\ g.table = before[k].table
                         /\ g.typ = S[g.index + 1].typ
                         /\ g.nullable = S[g.index + 1].nullable
                    ELSE after[k] = before[k]
           ELSE /\ pc = "failed"
                /\ err.kind = "ColumnTableNotFound"
                /\ ~HasColumn(S, err.table, err.name)
                /\ \E k \in cols : /\ before[k].table = err.table
                                   /\ before[k].name = err.name

\* a column of the second child of a join was resolved: its index counts
\* the columns of the first child
IndexValidWitness ==
    /\ last.rule = "resolve_columns"
    /\ err = NoError
    /\ last.node.kind = "Project"
    /\ last.node.children[1].kind = "CrossJoin"
    /\ last.node.exprs[1].kind = "UnresolvedColumn"
    /\ Result.exprs[1].kind = "GetField"
    /\ Result.exprs[1].index >= Len(Schema(last.node.children[1].children[1]))

(***************************************************************************)
(* The scope of a qualify_columns callback, read off the plan: the tables  *)
(* and the aliases declared by the nodes visited so far.                   *)
(***************************************************************************)
VisitedNodes == {SubAt(ruleIn, q) : q \in Visited}

\* the nodes that declare a table name with a schema
Declaring ==
    {m \in VisitedNodes :
        \/ IsTable(m)
        \/ m.kind = "TableAlias" /\ ~IsTable(m.children[1])}

\* the visited aliases of tables, as <<alias, table>>
DeclaredAliases ==
    {<<m.name, m.children[1].name>> :
        m \in {x \in VisitedNodes :
                x.kind = "TableAlias" /\ IsTable(x.children[1])}}

DeclaredTables == {m.name : m \in Declaring}

\* the declared tables that have a column named c
TablesWith(c) ==
    {m.name : m \in {x \in Declaring :
                        \E i \in DOMAIN Schema(x) : Schema(x)[i].name = c}}

\* the table a qualifier stands for
Target(t) ==
    IF \E a \in DeclaredAliases : a[1] = t
    THEN (CHOOSE a \in DeclaredAliases : a[1] = t)[2]
    ELSE t

\* the error the scope gives a column reference, NoError if it has none
ScopeError(col) ==
    IF col.kind # "UnresolvedColumn" THEN NoError
    ELSE IF col.table = ""
    THEN IF TablesWith(col.name) = {}
         THEN ErrColumnTableNotFound("", col.name)
         ELSE IF Cardinality(TablesWith(col.name)) = 1 THEN NoError
         ELSE ErrAmbiguousColumnName(col.name, <<>>)
    ELSE IF Target(col.table) \in DeclaredTables THEN NoError
    ELSE ErrTableNotFound(Target(col.table))

OwnLeaves == LeavesOfAll(last.node.exprs)
BareLeaves ==
    {k \in DOMAIN OwnLeaves :
        OwnLeaves[k].kind = "UnresolvedColumn" /\ OwnLeaves[k].table = ""}
QualifiedLeaves ==
    {k \in DOMAIN OwnLeaves :
        OwnLeaves[k].kind = "UnresolvedColumn" /\ OwnLeaves[k].table # ""}
ScopeErrors == [k \in DOMAIN OwnLeaves |-> ScopeError(OwnLeaves[k])]

(***************************************************************************)
(* C4  Unqualified columns.  For a qualify_columns callback on a node      *)
(* with a bare column reference c, T being the set of tables declared so   *)
(* far that have a column named c: the callback succeeds only if T is a    *)
(* single table for every bare reference, and then qualifies each with     *)
(* its table; it fails with ColumnTableNotFound("", c) only if T is        *)
(* empty and with AmbiguousColumnName(c, tables) only if T has two or      *)
(* more tables, tables listing T with each table once; and when the first  *)
(* reference of the node that is out of scope is a bare one, the error is  *)
(* the one T gives it.                                                     *)
(***************************************************************************)
UnqualifiedColumns ==
    (last.rule = "qualify_columns") =>
        LET after == LeavesOfAll(Result.exprs)
            fe == FirstError(ScopeErrors)
        IN /\ err = NoError =>
                \A k \in BareLeaves :
                    /\ Cardinality(TablesWith(OwnLeaves[k].name)) = 1
                    /\ after[k] = UnresolvedColumn(
                            CHOOSE t \in TablesWith(OwnLeaves[k].name) : TRUE,
                            OwnLeaves[k].name)
           /\ err.kind = "ColumnTableNotFound" =>
                /\ err.table = ""
                /\ TablesWith(err.name) = {}
                /\ \E k \in BareLeaves : OwnLeaves[k].name = err.name
           /\ err.kind = "AmbiguousColumnName" =>
                /\ Range(err.tables) = TablesWith(err.name)
                /\ Len(err.tables) = Cardinality(TablesWith(err.name))
                /\ Len(err.tables) >= 2
                /\ \E k \in BareLeaves : OwnLeaves[k].name = err.name
           /\ fe.kind \in {"ColumnTableNotFound", "AmbiguousColumnName"} =>
                /\ err.kind = fe.kind
                /\ err.name = fe.name

\* a bare column was qualified although its table was registered twice
UnqualifiedColumnsWitness ==
    /\ last.rule = "qualify_columns"
    /\ err = NoError
    /\ \E k \in BareLeaves :
            /\ Len(Get(colIndex, OwnLeaves[k].name, <<>>)) >= 2
            /\ LeavesOfAll(Result.exprs)[k].table # ""

(***************************************************************************)
(* C5  Star expansion.  The resolve_star callback turns a Project whose    *)
(* only expression is Star, over a child with n columns, into a Project    *)
(* over the same child with n expressions, the i-th a GetField with index  *)
(* i and the name, type, nullability and source table of the child's i-th  *)
(* column; any other Project it leaves unchanged.                          *)
(***************************************************************************)
StarExpansion ==
    (last.rule = "resolve_star" /\ last.node.kind = "Project") =>
        IF last.node.exprs = <<Star>>
        THEN LET S == Schema(last.node.children[1]) IN
             /\ Result.kind = "Project"
             /\ Result.children = last.node.children
             /\ Len(Result.exprs) = Len(S)
             /\ \A i \in DOMAIN S :
                    Result.exprs[i] =
                        GetFieldWithTable(i - 1, S[i].typ, S[i].source,
                                          S[i].name, S[i].nullable)
        ELSE Result = last.node

(***************************************************************************)
(* C6  Idempotence.  When Analyze has returned a plan without error and    *)
(* is called on that plan, it returns, without error, an equal plan.       *)
(***************************************************************************)
AnalyzeIdempotent ==
    (round = 2 /\ pc \in {"done", "failed"}) => (pc = "done" /\ plan = first)

(***************************************************************************)
(* C7  as claimed: whatever rule of the default list runs, a subtree that  *)
(* was resolved when the rule started is still there, equal, in the plan   *)
(* the rule has built.                                                     *)
(***************************************************************************)
ResolvedKept ==
    \A p \in Paths(ruleIn) :
        Resolved(SubAt(ruleIn, p)) =>
            (p \in Paths(plan) /\ SubAt(plan, p) = SubAt(ruleIn, p))

ResolutionRules ==
    {"resolve_tables", "qualify_columns", "resolve_columns", "resolve_star"}

TraversalScoping ==
    (last.rule = "qualify_columns") =>
        LET after == LeavesOfAll(Result.exprs)
            fe == FirstError(ScopeErrors)
        IN /\ err = NoError =>
                \A k \in QualifiedLeaves :
                    /\ Target(OwnLeaves[k].table) \in DeclaredTables
                    /\ after[k] = UnresolvedColumn(Target(OwnLeaves[k].table),
                                                   OwnLeaves[k].name)
           /\ err.kind = "TableNotFound" =>
                /\ err.table \notin DeclaredTables
                /\ \E k \in QualifiedLeaves :
                        Target(OwnLeaves[k].table) = err.table
           /\ (err.kind = "none") <=> (fe.kind = "none")
           /\ err.kind = fe.kind
           /\ fe.kind = "TableNotFound" => err = fe
           /\ fe.kind = "ColumnTableNotFound" => err = fe
           /\ tables = DeclaredTables
           /\ DOMAIN tableAliases = {a[1] : a \in DeclaredAliases}

\* a reference to a table of the plan failed: the table is declared by a
\* node visited later
TraversalScopingWitness ==
    /\ last.rule = "qualify_columns"
    /\ err.kind = "TableNotFound"
    /\ \E m \in Subtrees(ruleIn) : IsTable(m) /\ m.name = err.table

\* a reference was qualified with a table that is not beneath its node
SiblingInScope ==
    /\ last.rule = "qualify_columns"
    /\ err = NoError
    /\ \E k \in QualifiedLeaves :
            \A m \in Subtrees(last.node) :
                ~(IsTable(m) /\ m.name = Target(OwnLeaves[k].table))

(***************************************************************************)
(* C9  A scan absorbs only conjuncts of Filter nodes above it: the         *)
(* conjuncts a scan reports as handled when the pushdown callback visits   *)
(* it are top-level conjuncts of Filters that are ancestors of the scan.   *)
(***************************************************************************)
NewlyHandled ==
    SubSeq(handledFilters,
           Len(handledFilters) - Len(Result.filters) + 1,
           Len(handledFilters))

AbsorbedFromAbove ==
    (/\ last.rule = "pushdown"
     /\ last.node.kind = "Table"
     /\ err = NoError
     /\ Result.kind = "PushdownProjectionAndFiltersTable") =>
        \A c \in Range(NewlyHandled) :
            \E f \in {m \in Ancestors : m.kind = "Filter"} :
                c \in AndConjuncts(f.exprs[1])

(***************************************************************************)
(* C10  Projection pushdown keeps what is read.  When the pipeline has     *)
(* returned a resolved plan, every wrapped scan of a table t lists every   *)
(* column of t that a GetField of a node of the plan reads, that is, the   *)
(* column at the GetField's index in the schemas of the node's children.   *)
(***************************************************************************)
PushedNames(w) ==
    IF w.kind = "PushdownProjectionTable"
    THEN Range(w.columns)
    ELSE {e.name : e \in Range(w.columns)}

\* the columns the GetFields of node n read
ColumnsRead(n) ==
    LET S == ConcatSchemas(n.children) IN
    {S[g.index + 1] :
        g \in {x \in Range(LeavesOfAll(n.exprs)) :
                x.kind = "GetField" /\ x.index + 1 \in DOMAIN S}}

ReadColumnsPushed ==
    (pc = "done" /\ round = 1 /\ Resolved(plan)) =>
        \A w \in {m \in Subtrees(plan) : m.kind \in Wrappers} :
            \A n \in Subtrees(plan) :
                \A c \in ColumnsRead(n) :
                    c.source = w.name => c.name \in PushedNames(w)

====
